---- MODULE Spec2Model ----
(***************************************************************************)
(* Model of cstimer_visualization.py: convert_to_seconds, solve_stats and  *)
(* data_for_plot.                                                          *)
(*                                                                         *)
(* Text is a sequence of one-character strings.  A Python float is an      *)
(* exact rational [n, d] in lowest terms (rounding error of binary floats  *)
(* is not modelled); math.sqrt(v) is kept as the surd [sqrt |-> v].        *)
(***************************************************************************)
EXTENDS Integers, Sequences, FiniteSets

\* ------------------------------------------------------------------ bounds
MaxRecords == 3     \* longest file drawn from all rows
MaxRepeat  == 5     \* longest run of one repeated row in a cluster file
MaxCalls   == 2     \* calls made on one file
MaxLen     == 5     \* longest text handed to convert_to_seconds on its own

\* ------------------------------------------------- float arithmetic (exact)
RECURSIVE GCD(_, _)
GCD(a, b) == IF b = 0 THEN a ELSE GCD(b, a % b)

Abs(x) == IF x < 0 THEN -x ELSE x

Rat(n, d) == LET g == GCD(Abs(n), d) IN [n |-> n \div g, d |-> d \div g]

IntRat(i) == [n |-> i, d |-> 1]

RAdd(x, y) == Rat(x.n * y.d + y.n * x.d, x.d * y.d)
RSub(x, y) == Rat(x.n * y.d - y.n * x.d, x.d * y.d)
RMul(x, y) == Rat(x.n * y.n, x.d * y.d)
RDivInt(x, k) == Rat(x.n, x.d * k)
RLess(x, y) == x.n * y.d < y.n * x.d
RLeq(x, y) == x.n * y.d <= y.n * x.d

\* math.floor
Floor(x) == x.n \div x.d

\* math.sqrt
Sqrt(v) == [sqrt |-> v]

\* math.floor(mean + 2*stdev): the largest k with k - mean <= 2*sqrt(v)
Within(k, m, sd) ==
    LET dlt == RSub(IntRat(k), m)
    IN  dlt.n <= 0 \/ RLeq(RMul(dlt, dlt), RMul(IntRat(4), sd.sqrt))

RECURSIVE FloorUp(_, _, _)
FloorUp(k, m, sd) == IF Within(k + 1, m, sd) THEN FloorUp(k + 1, m, sd) ELSE k

FloorMeanPlus2Stdev(m, sd) == FloorUp(Floor(m), m, sd)

\* ------------------------------------------------------------------- text
Digits == {"0", "1", "2", "3", "4", "5", "6", "7", "8", "9"}
DigitChar == <<"0", "1", "2", "3", "4", "5", "6", "7", "8", "9">>
DigitVal(c) == CHOOSE v \in 0..9 : DigitChar[v + 1] = c

Pow10(k) == [i \in 0..9 |-> CASE i = 0 -> 1 [] i = 1 -> 10 [] i = 2 -> 100
                              [] i = 3 -> 1000 [] i = 4 -> 10000
                              [] i = 5 -> 100000 [] i = 6 -> 1000000
                              [] i = 7 -> 10000000 [] i = 8 -> 100000000
                              [] OTHER -> 1000000000][k]

\* positions of character c in text s
Positions(s, c) == {i \in 1..Len(s) : s[i] = c}

\* str.split(':')
RECURSIVE Split(_)
Split(s) ==
    IF Positions(s, ":") = {} THEN <<s>>
    ELSE LET p == CHOOSE i \in Positions(s, ":") :
                      \A j \in Positions(s, ":") : i <= j
         IN  <<SubSeq(s, 1, p - 1)>> \o Split(SubSeq(s, p + 1, Len(s)))

RECURSIVE DigitsToInt(_)
DigitsToInt(s) ==
    IF s = <<>> THEN 0
    ELSE 10 * DigitsToInt(SubSeq(s, 1, Len(s) - 1)) + DigitVal(s[Len(s)])

\* texts float() accepts, over the characters modelled: digits with at most
\* one '.', and at least one digit
IsFloatText(s) ==
    /\ \A i \in 1..Len(s) : s[i] \in Digits \cup {"."}
    /\ Cardinality(Positions(s, ".")) <= 1
    /\ \E i \in 1..Len(s) : s[i] \in Digits

\* float(s) for a text float() accepts
FloatOf(s) ==
    IF Positions(s, ".") = {} THEN IntRat(DigitsToInt(s))
    ELSE LET p == CHOOSE i \in 1..Len(s) : s[i] = "."
         IN  Rat(DigitsToInt(SubSeq(s, 1, p - 1) \o SubSeq(s, p + 1, Len(s))),
                 Pow10(Len(s) - p))

Zero == IntRat(0)
Value(x) == [exc |-> "none", val |-> x]
ValueError == [exc |-> "ValueError", val |-> Zero]

\* convert_to_seconds(time)
convert_to_seconds(time) ==
    LET components == Split(time)
        k == Len(components)
    IN  IF k = 2
        THEN IF IsFloatText(components[k - 1]) /\ IsFloatText(components[k])
             THEN Value(RAdd(RMul(FloatOf(components[k - 1]), IntRat(60)),
                             FloatOf(components[k])))
             ELSE ValueError
        ELSE IF IsFloatText(components[k])
             THEN Value(FloatOf(components[k]))
             ELSE ValueError

\* str(i) for i >= 0
RECURSIVE IntToStr(_)
IntToStr(i) ==
    IF i < 10 THEN <<DigitChar[i + 1]>>
    ELSE IntToStr(i \div 10) \o <<DigitChar[(i % 10) + 1]>>

\* ------------------------------------------------------------------ input
\* one row of the csv file: the 'Time' and 'P.1' columns
Row(t) == [Time |-> t, P1 |-> t]
DNFRow(t) == [Time |-> <<"D", "N", "F", "(">> \o t \o <<")">>, P1 |-> t]

TimeTexts == { <<"9", ".", "0">>, <<"9", ".", "5">>, <<"1", "2", ".", "5">>,
               <<"1", ":", "0", "0", ".", "5">> }
HugeText == <<"1", "0", "0", "0", "0", "0", "0", "0", "0", "1">>

ValidRows == {Row(t) : t \in TimeTexts}
ADNFRow == DNFRow(<<"1", "2", ".", "5">>)
\* a row whose raw time column is empty
BadRow == [Time |-> <<"9", ".", "5">>, P1 |-> <<>>]
Rows == ValidRows \cup {ADNFRow, BadRow}

SeqsUpTo(S, n) == UNION {[1..k -> S] : k \in 0..n}

\* every file of at most MaxRecords rows
NormalFiles == SeqsUpTo(Rows, MaxRecords)
\* k copies of one valid row, then another valid row and perhaps a DNF
ClusterFiles ==
    {[i \in 1..k |-> a] \o <<b>> \o tl :
        k \in 2..MaxRepeat, a \in ValidRows, b \in ValidRows,
        tl \in {<<>>, <<ADNFRow>>}}
\* one valid row with a time above the initial fastest_solve, among DNF rows
HugeFiles ==
    {f \in SeqsUpTo({ADNFRow, Row(HugeText)}, MaxRecords) :
        Cardinality({i \in 1..Len(f) : f[i] = Row(HugeText)}) = 1}

Files == NormalFiles \cup ClusterFiles \cup HugeFiles

ParseAlphabet == {"0", "1", "5", ":", "."}
ParseTexts == SeqsUpTo(ParseAlphabet, MaxLen)

\* ------------------------------------------------------------------ state
VARIABLES
    file,            \* the rows of the csv file
    pc,              \* position in the running call, "idle" between calls
    entry,           \* the function the caller invoked
    calls,           \* calls made so far
    opens,           \* times the current call has opened the file
    row,             \* next row of the DictReader being iterated
    total_solves, non_dnf_solves, total_mean, fastest_solve,
    mean, DNFs, total_variance,                 \* locals of solve_stats
    stats, categories, num_categories, values,  \* locals of data_for_plot
    ret,             \* what the last call returned or raised
    history,         \* every list solve_stats has returned for this file
    text, parsed     \* argument and result of a lone convert_to_seconds call

ssVars == <<total_solves, non_dnf_solves, total_mean, fastest_solve,
            mean, DNFs, total_variance>>
dpVars == <<stats, categories, num_categories, values>>
parseVars == <<text, parsed>>
vars == <<file, pc, entry, calls, opens, row, ssVars, dpVars, ret, history,
          parseVars>>

FastestInit == 1000000000

NoReturn == [exc |-> "pending", value |-> <<>>]
Returned(v) == [exc |-> "none", value |-> v]
Raised(e) == [exc |-> e, value |-> <<>>]
Pending == [exc |-> "pending", val |-> Zero]

InitLocals ==
    /\ pc = "idle" /\ entry = "none" /\ calls = 0 /\ opens = 0 /\ row = 0
    /\ total_solves = 0 /\ non_dnf_solves = 0 /\ total_mean = Zero
    /\ fastest_solve = Zero /\ mean = Zero /\ DNFs = 0
    /\ total_variance = Zero
    /\ stats = <<>> /\ categories = <<>> /\ num_categories = <<>>
    /\ values = <<>>
    /\ ret = NoReturn /\ history = <<>>

Init ==
    /\ file \in Files
    /\ InitLocals
    /\ text = <<>> /\ parsed = Pending

\* ------------------------------------------------------------ the caller
\* the caller invokes solve_stats(filename) or data_for_plot(filename);
\* data_for_plot starts by calling solve_stats
Call(fn) ==
    /\ pc = "idle" /\ calls < MaxCalls
    /\ entry' = fn /\ calls' = calls + 1 /\ opens' = 0
    /\ pc' = "solve_stats" /\ ret' = NoReturn
    /\ UNCHANGED <<file, row, ssVars, dpVars, history, parseVars>>

\* an exception leaves the call
Raise(e) ==
    /\ pc' = "idle" /\ ret' = Raised(e)

\* row['Time'][0] != 'D'
NotDNF(r) == r.Time[1] # "D"

\* ------------------------------------------------------------ solve_stats
\* variant: the counters carry over from the previous call
solve_stats_begin_keep ==
    /\ pc = "solve_stats"
    /\ UNCHANGED <<non_dnf_solves, total_mean, total_solves>>
    /\ fastest_solve' = IntRat(FastestInit)
    /\ opens' = opens + 1 /\ row' = 1
    /\ pc' = "ss_pass1"
    /\ UNCHANGED <<file, entry, calls, mean, DNFs, total_variance, dpVars,
                   ret, history, parseVars>>

\* the accumulators and the first open()
solve_stats_begin ==
    /\ pc = "solve_stats"
    /\ non_dnf_solves' = 0 /\ total_mean' = Zero /\ total_solves' = 0
    /\ fastest_solve' = IntRat(FastestInit)
    /\ opens' = opens + 1 /\ row' = 1
    /\ pc' = "ss_pass1"
    /\ UNCHANGED <<file, entry, calls, mean, DNFs, total_variance, dpVars,
                   ret, history, parseVars>>

\* variant: the comparison the wrong way round
Faster_reversed(t, f) == RLess(f, t)

\* the test that replaces fastest_solve
Faster(t, f) == RLess(t, f)

\* one iteration of the first loop over the rows
ss_pass1_row ==
    /\ pc = "ss_pass1" /\ row <= Len(file)
    /\ LET r == file[row]
           t == convert_to_seconds(r.P1)
       IN  /\ total_solves' = total_solves + 1
           /\ IF NotDNF(r)
              THEN IF t.exc # "none"
                   THEN /\ Raise(t.exc)
                        /\ UNCHANGED <<non_dnf_solves, total_mean,
                                       fastest_solve, row>>
                   ELSE /\ non_dnf_solves' = non_dnf_solves + 1
                        /\ total_mean' = RAdd(total_mean, t.val)
                        /\ fastest_solve' = IF Faster(t.val, fastest_solve)
                                            THEN t.val ELSE fastest_solve
                        /\ row' = row + 1
                        /\ UNCHANGED <<pc, ret>>
              ELSE /\ row' = row + 1
                   /\ UNCHANGED <<non_dnf_solves, total_mean, fastest_solve,
                                  pc, ret>>
    /\ UNCHANGED <<file, entry, calls, opens, mean, DNFs, total_variance,
                   dpVars, history, parseVars>>

\* variant: the subtraction forgotten
CountDNFs_total(total, non_dnf) == total

\* DNFs = total_solves - non_dnf_solves
CountDNFs(total, non_dnf) == total - non_dnf

\* after the first loop: the mean, the DNF count, the second open()
ss_mean ==
    /\ pc = "ss_pass1" /\ row > Len(file)
    /\ IF non_dnf_solves = 0
       THEN /\ Raise("ZeroDivisionError")
            /\ UNCHANGED <<mean, DNFs, total_variance, opens, row>>
       ELSE /\ mean' = RDivInt(total_mean, non_dnf_solves)
            /\ DNFs' = CountDNFs(total_solves, non_dnf_solves)
            /\ total_variance' = Zero
            /\ opens' = opens + 1 /\ row' = 1
            /\ pc' = "ss_pass2"
            /\ UNCHANGED ret
    /\ UNCHANGED <<file, entry, calls, total_solves, non_dnf_solves,
                   total_mean, fastest_solve, dpVars, history, parseVars>>

\* one iteration of the second loop over the rows
ss_pass2_row ==
    /\ pc = "ss_pass2" /\ row <= Len(file)
    /\ LET r == file[row]
           t == convert_to_seconds(r.P1)
       IN  IF NotDNF(r)
           THEN IF t.exc # "none"
                THEN /\ Raise(t.exc)
                     /\ UNCHANGED <<total_variance, row>>
                ELSE /\ total_variance' =
                            RAdd(total_variance,
                                 RMul(RSub(t.val, mean), RSub(t.val, mean)))
                     /\ row' = row + 1
                     /\ UNCHANGED <<pc, ret>>
           ELSE /\ row' = row + 1
                /\ UNCHANGED <<total_variance, pc, ret>>
    /\ UNCHANGED <<file, entry, calls, opens, total_solves, non_dnf_solves,
                   total_mean, fastest_solve, mean, DNFs, dpVars, history,
                   parseVars>>

\* the list solve_stats returns
StatsList ==
    LET variance == RDivInt(total_variance, non_dnf_solves)
        stdev == Sqrt(variance)
    IN  <<total_solves, mean, stdev, fastest_solve, DNFs>>

\* after the second loop: variance, stdev and the return
ss_return ==
    /\ pc = "ss_pass2" /\ row > Len(file)
    /\ history' = Append(history, StatsList)
    /\ IF entry = "solve_stats"
       THEN /\ ret' = Returned(StatsList)
            /\ pc' = "idle"
            /\ UNCHANGED stats
       ELSE /\ stats' = StatsList
            /\ pc' = "dp_categories"
            /\ UNCHANGED ret
    /\ UNCHANGED <<file, entry, calls, opens, row, ssVars, categories,
                   num_categories, values, parseVars>>

\* ---------------------------------------------------------- data_for_plot
\* range(a, b)
RECURSIVE Range(_, _)
Range(a, b) == IF a >= b THEN <<>> ELSE <<a>> \o Range(a + 1, b)

\* smallest = math.floor(fastest_solve)
Smallest(st) == Floor(st[4])
\* largest = math.floor(mean + 2*stdev)
Largest(st) == FloorMeanPlus2Stdev(st[2], st[3])

\* variant: range(smallest, largest)
NumCategories_exclusive(smallest, largest) == Range(smallest, largest)

\* num_categories: one integer per per-second bucket
NumCategories(smallest, largest) == Range(smallest, largest + 1)

\* categories: str(i) per bucket, then 'N+', then 'DNF'
Categories(smallest, largest) ==
    LET nums == NumCategories(smallest, largest)
    IN  [j \in 1..Len(nums) |-> IntToStr(nums[j])]
        \o <<IntToStr(largest + 1) \o <<"+">>>>
        \o <<<<"D", "N", "F">>>>

\* variant: a time outside the range is counted at index -1
BucketIndex_last(nums, vals, fl) ==
    IF \E j \in 1..Len(nums) : nums[j] = fl
    THEN CHOOSE j \in 1..Len(nums) :
             nums[j] = fl /\ \A i \in 1..(j - 1) : nums[i] # fl
    ELSE Len(vals)

\* the index of the bucket a valid time is counted in:
\* num_categories.index(floor) when present, else -2
BucketIndex(nums, vals, fl) ==
    IF \E j \in 1..Len(nums) : nums[j] = fl
    THEN CHOOSE j \in 1..Len(nums) :
             nums[j] = fl /\ \A i \in 1..(j - 1) : nums[i] # fl
    ELSE Len(vals) - 1

\* variant: the file is opened once more than needed
dp_categories_reopen ==
    /\ pc = "dp_categories"
    /\ LET smallest == Smallest(stats)
           largest == Largest(stats)
       IN  /\ categories' = Categories(smallest, largest)
           /\ num_categories' = NumCategories(smallest, largest)
           /\ values' = [j \in 1..Len(Categories(smallest, largest)) |-> 0]
    /\ opens' = opens + 2 /\ row' = 1
    /\ pc' = "dp_pass"
    /\ UNCHANGED <<file, entry, calls, ssVars, stats, ret, history,
                   parseVars>>

\* the categories, the zeroed values and the third open()
dp_categories ==
    /\ pc = "dp_categories"
    /\ LET smallest == Smallest(stats)
           largest == Largest(stats)
       IN  /\ categories' = Categories(smallest, largest)
           /\ num_categories' = NumCategories(smallest, largest)
           /\ values' = [j \in 1..Len(Categories(smallest, largest)) |-> 0]
    /\ opens' = opens + 1 /\ row' = 1
    /\ pc' = "dp_pass"
    /\ UNCHANGED <<file, entry, calls, ssVars, stats, ret, history,
                   parseVars>>

\* one iteration of the loop that fills values
dp_pass_row ==
    /\ pc = "dp_pass" /\ row <= Len(file)
    /\ LET r == file[row]
           t == convert_to_seconds(r.P1)
       IN  IF NotDNF(r)
           THEN IF t.exc # "none"
                THEN /\ Raise(t.exc)
                     /\ UNCHANGED <<values, row>>
                ELSE /\ LET j == BucketIndex(num_categories, values,
                                             Floor(t.val))
                        IN  values' = [values EXCEPT ![j] = @ + 1]
                     /\ row' = row + 1
                     /\ UNCHANGED <<pc, ret>>
           ELSE /\ row' = row + 1
                /\ UNCHANGED <<values, pc, ret>>
    /\ UNCHANGED <<file, entry, calls, opens, ssVars, stats, categories,
                   num_categories, history, parseVars>>

\* variant: values[-2] += DNFs
AddDNFs_overflow(vals, dnfs) == [vals EXCEPT ![Len(vals) - 1] = @ + dnfs]

\* values[-1] += DNFs
AddDNFs(vals, dnfs) == [vals EXCEPT ![Len(vals)] = @ + dnfs]

\* after the loop: the DNF bucket and the return
dp_return ==
    /\ pc = "dp_pass" /\ row > Len(file)
    /\ values' = AddDNFs(values, stats[5])
    /\ ret' = Returned(<<stats[1], stats[2], stats[3], stats[4], categories,
                         AddDNFs(values, stats[5])>>)
    /\ pc' = "idle"
    /\ UNCHANGED <<file, entry, calls, opens, row, ssVars, stats, categories,
                   num_categories, history, parseVars>>

Next ==
    \/ \E fn \in {"solve_stats", "data_for_plot"} : Call(fn)
    \/ solve_stats_begin
    \/ ss_pass1_row
    \/ ss_mean
    \/ ss_pass2_row
    \/ ss_return
    \/ dp_categories
    \/ dp_pass_row
    \/ dp_return

Spec == Init /\ [][Next]_vars

\* ------------------------------------- convert_to_seconds called on its own
InitParse ==
    /\ file = <<>>
    /\ InitLocals
    /\ text \in ParseTexts /\ parsed = Pending

Convert ==
    /\ parsed.exc = "pending"
    /\ parsed' = convert_to_seconds(text)
    /\ UNCHANGED <<file, pc, entry, calls, opens, row, ssVars, dpVars, ret,
                   history, text>>

NextParse == Convert

SpecParse == InitParse /\ [][NextParse]_vars

\* ------------------------------------------------------------- properties
RECURSIVE SumSeq(_)
SumSeq(s) == IF s = <<>> THEN 0 ELSE Head(s) + SumSeq(Tail(s))

\* rows whose status column does not start with the failure marker
ValidIdx == {i \in 1..Len(file) : Head(file[i].Time) # "D"}
FailIdx == {i \in 1..Len(file) : Head(file[i].Time) = "D"}
TimeOf(i) == convert_to_seconds(file[i].P1).val
FloorOf(i) == TimeOf(i).n \div TimeOf(i).d

\* data_for_plot / solve_stats has returned a list to the caller
DoneDP == pc = "idle" /\ entry = "data_for_plot" /\ ret.exc = "none"
DoneSS == pc = "idle" /\ entry = "solve_stats" /\ ret.exc = "none"

RetCounts == ret.value[6]
RetLabels == ret.value[5]
RetSmallest == ret.value[4].n \div ret.value[4].d
RetLargest == FloorMeanPlus2Stdev(ret.value[2], ret.value[3])

\* C1: when data_for_plot returns, the bucket counts sum to total_solves,
\* which is the number of rows of the file.
C1_SumIsTotal ==
    DoneDP => /\ SumSeq(RetCounts) = ret.value[1]
              /\ ret.value[1] = Len(file)

C1_Witness ==
    /\ DoneDP
    /\ RetCounts[Len(RetCounts)] > 0
    /\ RetCounts[Len(RetCounts) - 1] > 0
    /\ \E j \in 1..(Len(RetCounts) - 2) : RetCounts[j] > 1

\* C2: the last bucket count is the number of rows whose status starts with
\* 'D', which is total_count - valid_count; while the rows are being counted
\* no valid row is added to it.
C2_DNFBucket ==
    /\ DoneDP => /\ RetCounts[Len(RetCounts)] = Cardinality(FailIdx)
                 /\ RetCounts[Len(RetCounts)]
                        = ret.value[1] - Cardinality(ValidIdx)
    /\ pc = "dp_pass" => values[Len(values)] = 0

C2_Witness ==
    /\ DoneDP
    /\ Cardinality(FailIdx) >= 2
    /\ Cardinality(ValidIdx) >= 1

\* C3: a call on a file without a valid row ends in NoValidRecordsError.
C3_NoValidRecordsError ==
    (pc = "idle" /\ calls > 0 /\ ValidIdx = {})
        => ret.exc = "NoValidRecordsError"

\* C4: for a text whose colon-delimited segments are all numeric,
\* convert_to_seconds returns the number itself when there is no colon and
\* 60 * second-to-last segment + last segment when there is a colon.
C4_LastTwoSegments ==
    LET segs == Split(text)
        k == Len(segs)
    IN  (parsed.exc # "pending" /\ \A i \in 1..k : IsFloatText(segs[i]))
            => /\ parsed.exc = "none"
               /\ k = 1 => parsed.val = FloatOf(text)
               /\ k >= 2 => parsed.val =
                               RAdd(RMul(IntRat(60), FloatOf(segs[k - 1])),
                                    FloatOf(segs[k]))

\* text made of digits only, without a superfluous leading zero
IsIntText(s) ==
    /\ Len(s) >= 1
    /\ \A i \in 1..Len(s) : s[i] \in Digits
    /\ Len(s) > 1 => s[1] # "0"

\* C5: the labels are str(i) for i = smallest..largest in ascending order,
\* then '<largest+1>+', then 'DNF'; there are as many counts as labels.
C5_Labels ==
    DoneDP =>
        LET n == IF RetLargest >= RetSmallest
                 THEN RetLargest - RetSmallest + 1 ELSE 0
            over == RetLabels[n + 1]
        IN  /\ Len(RetLabels) = n + 2
            /\ Len(RetCounts) = Len(RetLabels)
            /\ \A j \in 1..n : /\ IsIntText(RetLabels[j])
                               /\ DigitsToInt(RetLabels[j])
                                      = RetSmallest + j - 1
            /\ over[Len(over)] = "+"
            /\ IsIntText(SubSeq(over, 1, Len(over) - 1))
            /\ DigitsToInt(SubSeq(over, 1, Len(over) - 1)) = RetLargest + 1
            /\ RetLabels[n + 2] = <<"D", "N", "F">>

C5_Witness ==
    /\ DoneDP
    /\ RetSmallest = 9
    /\ RetLargest >= 12
    /\ Len(RetLabels) = RetLargest - RetSmallest + 3

\* C6: the fastest value solve_stats returns is the minimum parsed time of
\* the valid rows.
C6_FastestIsMin ==
    \A c \in 1..Len(history) :
        /\ \E i \in ValidIdx : history[c][4] = TimeOf(i)
        /\ \A i \in ValidIdx : RLeq(history[c][4], TimeOf(i))

\* C7: per-second bucket i holds the number of valid rows with
\* floor(time) = i, the overflow bucket the number of valid rows whose floor
\* is outside [smallest, largest].
C7_Buckets ==
    DoneDP =>
        /\ \A j \in 1..(Len(RetCounts) - 2) :
               RetCounts[j] = Cardinality({i \in ValidIdx :
                                  FloorOf(i) = RetSmallest + j - 1})
        /\ RetCounts[Len(RetCounts) - 1] =
               Cardinality({i \in ValidIdx :
                   FloorOf(i) < RetSmallest \/ FloorOf(i) > RetLargest})

C7_Witness ==
    /\ DoneDP
    /\ RetCounts[Len(RetCounts) - 1] = 1
    /\ RetCounts[1] >= 2
    /\ \E j \in 2..(Len(RetCounts) - 2) : RetCounts[j] = 0

\* C8: every call of solve_stats on the file returns the same list, and no
\* step of a call changes the file.
C8_Idempotent ==
    /\ [](\A a, b \in 1..Len(history) : history[a] = history[b])
    /\ [][file' = file]_vars

C8_Witness ==
    /\ Len(history) = 2
    /\ calls = 2
    /\ pc = "idle"
    /\ Cardinality(ValidIdx) >= 2
    /\ FailIdx # {}

C10_RangeNotEmpty ==
    (DoneDP /\ \A i \in ValidIdx : RLess(TimeOf(i), IntRat(FastestInit)))
        => /\ RetSmallest <= RetLargest
           /\ Len(RetLabels) >= 3
           /\ \A i \in ValidIdx : FloorOf(i) >= RetSmallest
           /\ RetCounts[Len(RetCounts) - 1] =
                  Cardinality({i \in ValidIdx : FloorOf(i) > RetLargest})

C10_Witness ==
    /\ DoneDP
    /\ \A i \in ValidIdx : RLess(TimeOf(i), IntRat(FastestInit))
    /\ \E i \in ValidIdx : FloorOf(i) > RetLargest
    /\ \E i \in ValidIdx : FloorOf(i) = RetSmallest

====
